---- MODULE Spec2Model ----
(***************************************************************************)
(* Aegis Onboarding: the per-client onboarding workflow (orchestration     *)
(* engine, approval gate, notification hub) and the observer that follows  *)
(* it (HomePage, the onboarding store, the useWebSocket hook).             *)
(*                                                                         *)
(* The engine, the approval gate and the hub live in the backend, which is *)
(* not part of the sources at hand; they are modelled from the design      *)
(* document.  The observer is modelled from the TypeScript sources.        *)
(***************************************************************************)
EXTENDS Integers, Sequences, FiniteSets

(***************************************************************************)
(* Bounds of the model.                                                    *)
(***************************************************************************)
MaxClients == 2
NumSteps == 3
MaxInFlight == 2
MaxTimers == 1

ClientIds == 1..MaxClients

(***************************************************************************)
(* Values standing for JavaScript's undefined / null.                      *)
(***************************************************************************)
Undefined == "undefined"
UndefinedNum == -1
NoTime == "none"
Now == "now"
NoError == "null"

(***************************************************************************)
(* Workflow Definition: the ordered catalogue of steps.  The model runs    *)
(* NumSteps consecutive entries of it, from the step before the approval   *)
(* gate on (the leading google_drive step is an executor step like the     *)
(* others and is left out).                                                *)
(***************************************************************************)
WorkflowDefinition ==
  << "contract_generation", "human_approval", "communication_setup",
     "github_repository", "project_board", "welcome_email",
     "billing_setup" >>

StepIds == SubSeq(WorkflowDefinition, 1, NumSteps)

ApprovalRequired(stepId) == stepId = "human_approval"

StepStatuses == {"pending", "in_progress", "completed", "failed"}

Feedbacks == {"", "wrong scope"}

DefaultRejection == "Step rejected"
ExecutorErrorText == "executor error"
DefaultErrorText == "An error occurred during onboarding"

(***************************************************************************)
(* OnboardingStep / OnboardingProgress records.                            *)
(***************************************************************************)
OnboardingStep(stepId) ==
  [id |-> stepId, status |-> "pending", error_message |-> "", feedback |-> ""]

OnboardingProgress(c) ==
  [client_id |-> c,
   steps |-> [i \in 1..NumSteps |-> OnboardingStep(StepIds[i])],
   current_step |-> 0,
   overall_status |-> "in_progress",
   progress_percentage |-> 0,
   completed_at |-> NoTime]

NoProgress ==
  [client_id |-> 0, steps |-> << >>, current_step |-> 0,
   overall_status |-> "pending", progress_percentage |-> 0,
   completed_at |-> NoTime]

NoClient == [id |-> 0, status |-> "pending"]

CompletedCount(steps) ==
  Cardinality({i \in DOMAIN steps : steps[i].status = "completed"})

(* round(100 * done / total), halves rounded up *)
Round100(done, total) == (200 * done + total) \div (2 * total)

ProgressPercentage(steps) == Round100(CompletedCount(steps), Len(steps))

(***************************************************************************)
(* Notification events (WebSocketMessage and its variants).  The variant   *)
(* fields sit at the top level of the message as the message types declare *)
(* them, and are repeated in the data payload as the event envelope        *)
(* describes it.  d_* are the fields of data, cd_* those of                *)
(* completion_data.                                                        *)
(***************************************************************************)
BlankMessage ==
  [type |-> "none", client_id |-> 0,
   step_id |-> Undefined, step_status |-> Undefined,
   progress_percentage |-> UndefinedNum,
   has_completion_data |-> FALSE, cd_completed_at |-> Undefined,
   d_step_id |-> Undefined, d_step_status |-> Undefined,
   d_progress_percentage |-> UndefinedNum, d_current_step |-> UndefinedNum,
   d_completed_at |-> Undefined, d_message |-> Undefined]

NoMessage == BlankMessage

StepUpdateMessage(c, stepId, status, pct, cur) ==
  [BlankMessage EXCEPT !.type = "step_update", !.client_id = c,
     !.step_id = stepId, !.step_status = status, !.progress_percentage = pct,
     !.d_step_id = stepId, !.d_step_status = status,
     !.d_progress_percentage = pct, !.d_current_step = cur]

ApprovalRequestMessage(c, stepId) ==
  [BlankMessage EXCEPT !.type = "approval_request", !.client_id = c,
     !.step_id = stepId, !.d_step_id = stepId]

OnboardingCompleteMessage(c, at) ==
  [BlankMessage EXCEPT !.type = "onboarding_complete", !.client_id = c,
     !.has_completion_data = TRUE, !.cd_completed_at = at,
     !.d_completed_at = at]

ErrorMessage(c, text) ==
  [BlankMessage EXCEPT !.type = "error", !.client_id = c, !.d_message = text]

\* a frame that is not JSON, as socket.onmessage wraps it
PlainTextMessage(c) ==
  [BlankMessage EXCEPT !.type = "message", !.client_id = c,
     !.d_message = "plain text"]

\* a JSON frame of a type the observer does not know
UnknownMessage(c) ==
  [BlankMessage EXCEPT !.type = "connection_established", !.client_id = c]

KnownTypes == {"step_update", "approval_request", "onboarding_complete",
               "error"}

VARIABLES
  \* engine, approval gate, hub
  progress,          \* client id -> OnboardingProgress (NoProgress: unknown)
  pendingApproval,   \* client id -> step id awaiting a decision, or Undefined
  pc,                \* client id -> position of the client's task
  published,         \* client id -> events published so far, in order
  nextId,            \* number of clients created
  \* observer: onboarding store
  currentClient, currentProgress, isOnboardingActive, currentView,
  showOnboardingModal, error, clients,
  \* observer: useWebSocket hook and the message effect
  lastMessage, effectDirty, socket, inbox,
  clientIdRef,       \* the client id kept for reconnecting, 0: null
  isConnected,       \* the hook's isConnected state
  orphans,           \* sockets the hook created and no longer refers to
  orphanInbox,       \* events on their way through such a socket
  timers,            \* reconnect timers waiting to fire
  followed,          \* whether the sockets the hook abandons are followed
  \* observer: StatusDashboard's approval modal
  approvalModal,
  \* observer: ClientForm, the fields the form shows an error for
  formErrors

engineVars == << progress, pendingApproval, pc, published, nextId >>
storeVars == << currentClient, currentProgress, isOnboardingActive,
                currentView, showOnboardingModal, error, clients >>
hookVars == << lastMessage, effectDirty, socket, inbox, clientIdRef,
              isConnected, orphans, orphanInbox, timers, followed >>
vars == << engineVars, storeVars, hookVars, approvalModal, formErrors >>

NoSocket == [state |-> "none", client |-> 0]

Init ==
  /\ progress = [c \in ClientIds |-> NoProgress]
  /\ pendingApproval = [c \in ClientIds |-> Undefined]
  /\ pc = [c \in ClientIds |-> "idle"]
  /\ published = [c \in ClientIds |-> << >>]
  /\ nextId = 0
  /\ currentClient = NoClient
  /\ currentProgress = NoProgress
  /\ isOnboardingActive = FALSE
  /\ currentView = "landing"
  /\ showOnboardingModal = FALSE
  /\ error = NoError
  /\ clients = << >>
  /\ lastMessage = NoMessage
  /\ effectDirty = FALSE
  /\ socket = NoSocket
  /\ inbox = << >>
  /\ clientIdRef = 0
  /\ isConnected = FALSE
  /\ orphans = {}
  /\ orphanInbox = << >>
  /\ timers = 0
  /\ followed = FALSE
  /\ approvalModal = [isOpen |-> FALSE, stepId |-> ""]
  /\ formErrors = {}

(***************************************************************************)
(* Notification hub: publish(clientId, events) appends to the client's     *)
(* stream and hands the events to the observer subscribed to that client   *)
(* at this moment; there is no replay for a later subscriber.              *)
(***************************************************************************)
Subscribed(c) == socket.state = "open" /\ socket.client = c

\* a socket the hook no longer refers to is still registered for the client
OrphanSubscribed(c) ==
  \E o \in orphans : o.state = "open" /\ o.client = c

\* at most MaxInFlight events are on their way through one socket
Publish(c, events) ==
  /\ Subscribed(c) => Len(inbox) + Len(events) <= MaxInFlight
  /\ OrphanSubscribed(c) => Len(orphanInbox) + Len(events) <= MaxInFlight
  /\ published' = [published EXCEPT ![c] = @ \o events]
  /\ inbox' = IF Subscribed(c) THEN inbox \o events ELSE inbox
  /\ orphanInbox' = IF OrphanSubscribed(c) THEN orphanInbox \o events
                    ELSE orphanInbox

\* step_update carries the (optional) current_step
CurrentStepField(p) == p.current_step

(***************************************************************************)
(* Orchestration engine: the step-advance algorithm, one task per client.  *)
(* pc: idle (no workflow), begin (about to start step current_step), exec  *)
(* (executor outstanding), await (approval pending), advance (step done,   *)
(* cursor not yet moved), halted (failed), done (completed).               *)
(***************************************************************************)
\* faulty variant of EngineBeginStep: the approval is requested but the task
\* does not wait for the decision
EngineBeginStep_NoGate(c) ==
  /\ pc[c] = "begin"
  /\ LET i == progress[c].current_step + 1
         sid == StepIds[i]
         p1 == [progress[c] EXCEPT !.steps[i].status = "in_progress"]
         upd == StepUpdateMessage(c, sid, "in_progress",
                                  p1.progress_percentage, CurrentStepField(p1))
     IN /\ progress' = [progress EXCEPT ![c] = p1]
        /\ pc' = [pc EXCEPT ![c] = "exec"]
        /\ IF ApprovalRequired(sid)
           THEN /\ pendingApproval' = [pendingApproval EXCEPT ![c] = sid]
                /\ Publish(c, << upd, ApprovalRequestMessage(c, sid) >>)
           ELSE /\ pendingApproval' = pendingApproval
                /\ Publish(c, << upd >>)
  /\ UNCHANGED << nextId, storeVars, lastMessage, effectDirty, socket,
                  clientIdRef, isConnected, orphans, followed, timers,
                  approvalModal >>
  /\ UNCHANGED formErrors

\* 1 and 2: mark the step in_progress, publish; suspend at an approval gate
EngineBeginStep(c) ==
  /\ pc[c] = "begin"
  /\ LET i == progress[c].current_step + 1
         sid == StepIds[i]
         p1 == [progress[c] EXCEPT !.steps[i].status = "in_progress"]
         upd == StepUpdateMessage(c, sid, "in_progress",
                                  p1.progress_percentage, CurrentStepField(p1))
     IN /\ progress' = [progress EXCEPT ![c] = p1]
        /\ IF ApprovalRequired(sid)
           THEN /\ pendingApproval' = [pendingApproval EXCEPT ![c] = sid]
                /\ pc' = [pc EXCEPT ![c] = "await"]
                /\ Publish(c, << upd, ApprovalRequestMessage(c, sid) >>)
           ELSE /\ pendingApproval' = pendingApproval
                /\ pc' = [pc EXCEPT ![c] = "exec"]
                /\ Publish(c, << upd >>)
  /\ UNCHANGED << nextId, storeVars, lastMessage, effectDirty, socket,
                  clientIdRef, isConnected, orphans, followed, timers,
                  approvalModal >>
  /\ UNCHANGED formErrors

\* 3, success: mark completed, recompute the percentage, publish; 4: after
\* the last step the workflow is completed in the same update
CompleteStep(p) ==
  LET done == [p.steps EXCEPT ![p.current_step + 1].status = "completed"]
  IN [p EXCEPT !.steps = done,
               !.progress_percentage = ProgressPercentage(done)]

CompleteWorkflow(p) ==
  [p EXCEPT !.overall_status = "completed", !.completed_at = Now,
            !.progress_percentage = 100]

IsLastStep(p) == p.current_step + 1 = Len(p.steps)

\* faulty variant of ExecutorSucceeds: the last step completes but the
\* workflow is never marked completed and onboarding_complete never published
ExecutorSucceeds_NoCompletion(c) ==
  /\ pc[c] = "exec"
  /\ LET i == progress[c].current_step + 1
         p1 == CompleteStep(progress[c])
         upd == StepUpdateMessage(c, StepIds[i], "completed",
                                  p1.progress_percentage, CurrentStepField(p1))
     IN /\ progress' = [progress EXCEPT ![c] = p1]
        /\ pc' = [pc EXCEPT ![c] =
                    IF IsLastStep(progress[c]) THEN "done" ELSE "advance"]
        /\ Publish(c, << upd >>)
  /\ UNCHANGED << pendingApproval, nextId, storeVars, lastMessage, effectDirty,
                  socket, clientIdRef, isConnected, orphans, followed, timers,
                  approvalModal >>
  /\ UNCHANGED formErrors

ExecutorSucceeds(c) ==
  /\ pc[c] = "exec"
  /\ LET i == progress[c].current_step + 1
         p1 == CompleteStep(progress[c])
         upd == StepUpdateMessage(c, StepIds[i], "completed",
                                  p1.progress_percentage, CurrentStepField(p1))
     IN IF IsLastStep(progress[c])
        THEN /\ progress' = [progress EXCEPT ![c] = CompleteWorkflow(p1)]
             /\ pc' = [pc EXCEPT ![c] = "done"]
             /\ Publish(c, << upd, OnboardingCompleteMessage(c, Now) >>)
        ELSE /\ progress' = [progress EXCEPT ![c] = p1]
             /\ pc' = [pc EXCEPT ![c] = "advance"]
             /\ Publish(c, << upd >>)
  /\ UNCHANGED << pendingApproval, nextId, storeVars, lastMessage, effectDirty,
                  socket, clientIdRef, isConnected, orphans, followed, timers,
                  approvalModal >>
  /\ UNCHANGED formErrors

\* the step and the workflow fail; nothing runs afterwards
FailStep(p, text) ==
  [p EXCEPT !.steps[p.current_step + 1].status = "failed",
            !.steps[p.current_step + 1].error_message = text,
            !.overall_status = "failed"]

FailureEvents(c, p, text) ==
  << StepUpdateMessage(c, StepIds[p.current_step + 1], "failed",
                       p.progress_percentage, CurrentStepField(p)),
     ErrorMessage(c, text) >>

\* faulty variant of ExecutorFails: the failure is recorded but the executor
\* is left to run again
ExecutorFails_Retries(c) ==
  /\ pc[c] = "exec"
  /\ progress[c].overall_status # "failed"
  /\ LET p1 == FailStep(progress[c], ExecutorErrorText)
     IN /\ progress' = [progress EXCEPT ![c] = p1]
        /\ Publish(c, FailureEvents(c, p1, ExecutorErrorText))
  /\ pc' = pc
  /\ UNCHANGED << pendingApproval, nextId, storeVars, lastMessage, effectDirty,
                  socket, clientIdRef, isConnected, orphans, followed, timers,
                  approvalModal >>
  /\ UNCHANGED formErrors

\* 3, failure
ExecutorFails(c) ==
  /\ pc[c] = "exec"
  /\ LET p1 == FailStep(progress[c], ExecutorErrorText)
     IN /\ progress' = [progress EXCEPT ![c] = p1]
        /\ Publish(c, FailureEvents(c, p1, ExecutorErrorText))
  /\ pc' = [pc EXCEPT ![c] = "halted"]
  /\ UNCHANGED << pendingApproval, nextId, storeVars, lastMessage, effectDirty,
                  socket, clientIdRef, isConnected, orphans, followed, timers,
                  approvalModal >>
  /\ UNCHANGED formErrors

\* faulty variant of EngineAdvance: the cursor moves on without waiting for
\* the executor of the current step
EngineAdvance_Eager(c) ==
  /\ pc[c] \in {"exec", "advance"}
  /\ ~IsLastStep(progress[c])
  /\ progress' = [progress EXCEPT ![c].current_step = @ + 1]
  /\ pc' = [pc EXCEPT ![c] = "begin"]
  /\ UNCHANGED << pendingApproval, published, nextId, storeVars, hookVars,
                  approvalModal >>
  /\ UNCHANGED formErrors

\* 5: move the cursor to the next step
EngineAdvance(c) ==
  /\ pc[c] = "advance"
  /\ progress' = [progress EXCEPT ![c].current_step = @ + 1]
  /\ pc' = [pc EXCEPT ![c] = "begin"]
  /\ UNCHANGED << pendingApproval, published, nextId, storeVars, hookVars,
                  approvalModal >>
  /\ UNCHANGED formErrors

(***************************************************************************)
(* Approval gate: decide(clientId, stepId, approved, feedback).            *)
(***************************************************************************)
DecideResult(c, stepId) ==
  IF progress[c] = NoProgress THEN "NotFoundError"
  ELSE IF pendingApproval[c] # stepId THEN "InvalidStateError"
  ELSE "ok"

Decide(c, stepId, approved, feedback) ==
  IF DecideResult(c, stepId) # "ok"
  THEN UNCHANGED << progress, pendingApproval, pc, published, inbox, orphanInbox >>
  ELSE /\ pendingApproval' = [pendingApproval EXCEPT ![c] = Undefined]
       /\ IF approved
          THEN \* resume the step loop at the current step
               /\ progress' = [progress EXCEPT
                     ![c].steps[progress[c].current_step + 1].feedback =
                        feedback]
               /\ pc' = [pc EXCEPT ![c] = "exec"]
               /\ UNCHANGED << published, inbox, orphanInbox >>
          ELSE LET text == IF feedback # "" THEN feedback
                           ELSE DefaultRejection
                   p1 == FailStep(progress[c], text)
               IN /\ progress' = [progress EXCEPT ![c] = p1]
                  /\ pc' = [pc EXCEPT ![c] = "halted"]
                  /\ Publish(c, FailureEvents(c, p1, text))

\* a decision submitted by some other caller of the approval endpoint
ExternalDecide(c, stepId, approved, feedback) ==
  /\ Decide(c, stepId, approved, feedback)
  /\ UNCHANGED << nextId, storeVars, lastMessage, effectDirty, socket,
                  clientIdRef, isConnected, orphans, followed, timers,
                  approvalModal >>
  /\ UNCHANGED formErrors

\* the snapshot start(intake) returns: step 0 has begun
StartSnapshot(c) ==
  [OnboardingProgress(c) EXCEPT !.steps[1].status = "in_progress"]

\* faulty variant of EngineStart: the snapshot is taken before step 0 begins
EngineStart_AllPending(c) ==
  /\ progress' = [progress EXCEPT ![c] = OnboardingProgress(c)]
  /\ pc' = [pc EXCEPT ![c] = "begin"]
  /\ nextId' = c
  /\ UNCHANGED << pendingApproval, published >>

\* start(intake): create the records, begin step 0 (mark it in_progress and
\* publish, nobody being subscribed to the new client yet; its executor
\* runs asynchronously) and return the snapshot
EngineStart(c) ==
  /\ progress' = [progress EXCEPT ![c] = StartSnapshot(c)]
  /\ nextId' = c
  /\ IF ApprovalRequired(StepIds[1])
     THEN /\ pendingApproval' = [pendingApproval EXCEPT ![c] = StepIds[1]]
          /\ pc' = [pc EXCEPT ![c] = "await"]
          /\ published' = [published EXCEPT ![c] =
                 << StepUpdateMessage(c, StepIds[1], "in_progress", 0, 0),
                    ApprovalRequestMessage(c, StepIds[1]) >>]
     ELSE /\ pendingApproval' = pendingApproval
          /\ pc' = [pc EXCEPT ![c] = "exec"]
          /\ published' = [published EXCEPT ![c] =
                 << StepUpdateMessage(c, StepIds[1], "in_progress", 0, 0) >>]

\* start(intake) called by some other client of the API
ExternalStart ==
  /\ nextId < MaxClients
  /\ EngineStart(nextId + 1)
  /\ UNCHANGED << storeVars, hookVars, approvalModal >>
  /\ UNCHANGED formErrors

\* getStatus(clientId): the current snapshot
GetStatus(c) == progress[c]

(***************************************************************************)
(* Onboarding store.                                                       *)
(***************************************************************************)
\* faulty variant of AddClient: the client is always prepended
AddClient_AlwaysPrepends(list, client) ==
  << client >> \o list

\* addClient: replace the entry with the same id, else prepend
AddClient(list, client) ==
  IF \E i \in DOMAIN list : list[i].id = client.id
  THEN LET existingIndex ==
             CHOOSE i \in DOMAIN list :
               /\ list[i].id = client.id
               /\ \A j \in DOMAIN list : list[j].id = client.id => i <= j
       IN [list EXCEPT ![existingIndex] = client]
  ELSE << client >> \o list

\* updateClient, the clients list: merge the status into the matching entries
UpdateClient(list, clientId, status) ==
  [i \in DOMAIN list |->
     IF list[i].id = clientId THEN [list[i] EXCEPT !.status = status]
     ELSE list[i]]

NoModal == [isOpen |-> FALSE, stepId |-> ""]

(***************************************************************************)
(* useWebSocket hook.                                                      *)
(***************************************************************************)
\* Close codes of the close event: close(1000, ...) on an open socket,
\* close() without a code on an open socket, and a connection that failed
\* or was closed before it was established.
ManualClose == 1000
NoStatusClose == 1005
AbnormalClose == 1006

\* the socket connect() finds in socketRef: an open one is closed without a
\* code, a connecting one is left as it is, a closed one is dropped
ReplacedSocket(old) ==
  IF old.state = "open"
  THEN {[state |-> "closing", client |-> old.client, code |-> NoStatusClose]}
  ELSE IF old.state = "connecting"
  THEN {[state |-> "connecting", client |-> old.client, code |-> 0]}
  ELSE {}

\* the socket disconnect() closes with code 1000; a socket closed before it
\* is established reports an abnormal close
ClosedSocket(old) ==
  IF old.state = "open"
  THEN {[state |-> "closing", client |-> old.client, code |-> ManualClose]}
  ELSE IF old.state = "connecting"
  THEN {[state |-> "closing", client |-> old.client, code |-> AbnormalClose]}
  ELSE {}

\* connect(clientId): socketRef now holds a new, connecting socket
Connect(clientId) ==
  /\ clientIdRef' = clientId
  /\ orphans' = IF followed THEN orphans \cup ReplacedSocket(socket)
                ELSE orphans
  /\ followed' = followed
  /\ socket' = [state |-> "connecting", client |-> clientId]
  /\ inbox' = << >>
  /\ UNCHANGED << isConnected, orphanInbox >>

\* socketRef, clientIdRef and isConnected
HookState ==
  [socket |-> socket, clientIdRef |-> clientIdRef, isConnected |-> isConnected]

\* faulty variant of DisconnectResult: the client id is kept
DisconnectResult_KeepsClientId(h) ==
  [socket |-> NoSocket, clientIdRef |-> h.clientIdRef, isConnected |-> FALSE]

\* disconnect() on socketRef, clientIdRef and isConnected: the client id is
\* forgotten if socketRef holds a socket (whatever its readyState)
DisconnectResult(h) ==
  [socket |-> NoSocket,
   clientIdRef |-> IF h.socket # NoSocket THEN 0 ELSE h.clientIdRef,
   isConnected |-> FALSE]

\* disconnect(): close and forget the socket
Disconnect ==
  /\ socket' = DisconnectResult(HookState).socket
  /\ clientIdRef' = DisconnectResult(HookState).clientIdRef
  /\ isConnected' = DisconnectResult(HookState).isConnected
  /\ orphans' = IF followed THEN orphans \cup ClosedSocket(socket)
                ELSE orphans
  /\ followed' = followed
  /\ inbox' = << >>
  /\ UNCHANGED orphanInbox

\* socket.onopen: the hub has registered the observer
SocketOpen ==
  /\ socket.state = "connecting"
  /\ socket' = [socket EXCEPT !.state = "open"]
  /\ isConnected' = TRUE
  /\ UNCHANGED << engineVars, storeVars, lastMessage, effectDirty, inbox,
                  orphanInbox, clientIdRef, orphans, followed, timers,
                  approvalModal >>
  /\ UNCHANGED formErrors

\* faulty variant of OnMessage: the newest frame in flight overtakes the
\* older ones
OnMessage_NewestFirst ==
  /\ socket.state = "open"
  /\ inbox # << >>
  /\ lastMessage' = inbox[Len(inbox)]
  /\ inbox' = SubSeq(inbox, 1, Len(inbox) - 1)
  /\ effectDirty' = TRUE
  /\ UNCHANGED << engineVars, storeVars, socket, clientIdRef, isConnected,
                  orphans, followed, orphanInbox, timers, approvalModal >>
  /\ UNCHANGED formErrors

\* socket.onmessage: the frame becomes lastMessage
OnMessage ==
  /\ socket.state = "open"
  /\ inbox # << >>
  /\ lastMessage' = Head(inbox)
  /\ inbox' = Tail(inbox)
  /\ effectDirty' = TRUE
  /\ UNCHANGED << engineVars, storeVars, socket, clientIdRef, isConnected,
                  orphans, followed, orphanInbox, timers, approvalModal >>
  /\ UNCHANGED formErrors

\* socket.onmessage for a frame that is not one of the engine's events: a
\* plain-text frame or a JSON frame of another type
OnForeignFrame ==
  /\ socket.state = "open"
  /\ \E m \in {PlainTextMessage(socket.client), UnknownMessage(socket.client)} :
       lastMessage' = m
  /\ effectDirty' = TRUE
  /\ UNCHANGED << engineVars, storeVars, socket, inbox, clientIdRef,
                  isConnected, orphans, followed, orphanInbox, timers,
                  approvalModal >>
  /\ UNCHANGED formErrors

\* faulty variant of OnClose: no reconnect is scheduled
OnClose_NoReconnect(code) ==
  /\ isConnected' = FALSE
  /\ timers' = timers

\* socket.onclose: isConnected drops, and a close that was not manual
\* schedules a reconnect while a client id is kept
OnClose(code) ==
  /\ isConnected' = FALSE
  /\ timers' = IF code # ManualClose /\ clientIdRef # 0
               THEN timers + 1 ELSE timers

\* the connection of the current socket is lost or cannot be established:
\* the close event of socketRef's socket
SocketDrops ==
  /\ socket.state \in {"connecting", "open"}
  /\ timers < MaxTimers
  /\ socket' = [socket EXCEPT !.state = "closed"]
  /\ inbox' = << >>
  /\ OnClose(AbnormalClose)
  /\ UNCHANGED << engineVars, storeVars, lastMessage, effectDirty,
                  clientIdRef, orphans, followed, orphanInbox, approvalModal >>
  /\ UNCHANGED formErrors

\* socket.onerror
SocketError ==
  /\ socket.state \in {"connecting", "open"}
  /\ isConnected
  /\ isConnected' = FALSE
  /\ UNCHANGED << engineVars, storeVars, lastMessage, effectDirty, socket,
                  inbox, clientIdRef, orphans, followed, orphanInbox, timers,
                  approvalModal >>
  /\ UNCHANGED formErrors

\* faulty variant of ReconnectTimer: the callback does not look at
\* clientIdRef again
ReconnectTimer_NoRecheck ==
  /\ timers > 0
  /\ timers' = timers - 1
  /\ Connect(clientIdRef)
  /\ UNCHANGED << engineVars, storeVars, lastMessage, effectDirty,
                  approvalModal >>
  /\ UNCHANGED formErrors

\* the reconnect timer fires: connect(clientIdRef.current) unless it is null
ReconnectTimer ==
  /\ timers > 0
  /\ timers' = timers - 1
  /\ IF clientIdRef # 0
     THEN Connect(clientIdRef)
     ELSE UNCHANGED << socket, inbox, clientIdRef, orphans, followed, isConnected,
                       orphanInbox >>
  /\ UNCHANGED << engineVars, storeVars, lastMessage, effectDirty,
                  approvalModal >>
  /\ UNCHANGED formErrors

\* onopen of a socket the hook no longer refers to
OrphanOpens(o) ==
  /\ o \in orphans
  /\ o.state = "connecting"
  /\ orphans' = (orphans \ {o}) \cup {[o EXCEPT !.state = "open"]}
  /\ followed' = followed
  /\ isConnected' = TRUE
  /\ UNCHANGED << engineVars, storeVars, lastMessage, effectDirty, socket,
                  inbox, clientIdRef, orphanInbox, timers, approvalModal >>
  /\ UNCHANGED formErrors

\* onmessage of such a socket
OrphanMessage ==
  /\ orphanInbox # << >>
  /\ lastMessage' = Head(orphanInbox)
  /\ orphanInbox' = Tail(orphanInbox)
  /\ effectDirty' = TRUE
  /\ UNCHANGED << engineVars, storeVars, socket, inbox, clientIdRef,
                  isConnected, orphans, followed, timers, approvalModal >>
  /\ UNCHANGED formErrors

\* onclose of such a socket: the close it was asked for, or a lost connection
OrphanCloses(o) ==
  /\ o \in orphans
  /\ timers < MaxTimers
  /\ orphans' = orphans \ {o}
  /\ followed' = followed
  /\ orphanInbox' = IF \E q \in orphans' : q.state = "open"
                    THEN orphanInbox ELSE << >>
  /\ OnClose(IF o.state = "closing" THEN o.code ELSE AbnormalClose)
  /\ UNCHANGED << engineVars, storeVars, lastMessage, effectDirty, socket,
                  inbox, clientIdRef, approvalModal >>
  /\ UNCHANGED formErrors

(***************************************************************************)
(* HomePage.                                                               *)
(***************************************************************************)
\* the steps of the local progress after a step_update / approval_request
MapSteps(steps, stepId, status) ==
  [i \in DOMAIN steps |->
     IF steps[i].id = stepId THEN [steps[i] EXCEPT !.status = status]
     ELSE steps[i]]

ApplyStepUpdate(cp, m) ==
  [cp EXCEPT !.steps = MapSteps(cp.steps, m.step_id, m.step_status),
             !.progress_percentage = m.progress_percentage,
             !.current_step = IF m.d_current_step # UndefinedNum
                              THEN m.d_current_step ELSE @]

ApplyApprovalRequest(cp, m) ==
  [cp EXCEPT !.steps = MapSteps(cp.steps, m.step_id, "in_progress")]

ApplyOnboardingComplete(cp, m) ==
  [cp EXCEPT !.overall_status = "completed",
             !.progress_percentage = 100,
             !.completed_at = m.cd_completed_at]

\* reading completion_data.completed_at of a message without completion_data
Throws(m) ==
  /\ m.type = "onboarding_complete"
  /\ currentProgress # NoProgress
  /\ ~m.has_completion_data

\* faulty variant of MessageEffect: a message of an unknown type is taken
\* for an error
MessageEffect_UnknownIsError ==
  /\ effectDirty
  /\ effectDirty' = FALSE
  /\ IF lastMessage = NoMessage \/ currentClient = NoClient
        \/ Throws(lastMessage)
     THEN UNCHANGED << storeVars, approvalModal >>
     ELSE IF lastMessage.type = "step_update"
     THEN /\ currentProgress' =
               IF currentProgress # NoProgress
               THEN ApplyStepUpdate(currentProgress, lastMessage)
               ELSE currentProgress
          /\ UNCHANGED << currentClient, isOnboardingActive, currentView,
                          showOnboardingModal, error, clients, approvalModal >>
     ELSE IF lastMessage.type = "approval_request"
     THEN /\ currentProgress' =
               IF currentProgress # NoProgress
               THEN ApplyApprovalRequest(currentProgress, lastMessage)
               ELSE currentProgress
          /\ UNCHANGED << currentClient, isOnboardingActive, currentView,
                          showOnboardingModal, error, clients, approvalModal >>
     ELSE IF lastMessage.type = "onboarding_complete"
     THEN /\ currentProgress' =
               IF currentProgress # NoProgress
               THEN ApplyOnboardingComplete(currentProgress, lastMessage)
               ELSE currentProgress
          /\ currentClient' = [currentClient EXCEPT !.status = "completed"]
          /\ clients' = UpdateClient(clients, currentClient.id, "completed")
          /\ currentView' = "complete"
          /\ approvalModal' = NoModal
          /\ UNCHANGED << isOnboardingActive, showOnboardingModal, error >>
     ELSE IF lastMessage.type = "error"
     THEN /\ error' = IF lastMessage.d_message # Undefined
                         /\ lastMessage.d_message # ""
                      THEN lastMessage.d_message ELSE DefaultErrorText
          /\ UNCHANGED << currentClient, currentProgress, isOnboardingActive,
                          currentView, showOnboardingModal, clients,
                          approvalModal >>
     ELSE /\ error' = DefaultErrorText
          /\ UNCHANGED << currentClient, currentProgress, isOnboardingActive,
                          currentView, showOnboardingModal, clients,
                          approvalModal >>
  /\ UNCHANGED << engineVars, lastMessage, socket, clientIdRef, isConnected,
                  orphans, followed, timers, inbox, orphanInbox >>
  /\ UNCHANGED formErrors

\* the effect on [lastMessage, currentClient?.id]
MessageEffect ==
  /\ effectDirty
  /\ effectDirty' = FALSE
  /\ IF lastMessage = NoMessage \/ currentClient = NoClient
        \/ Throws(lastMessage)
     THEN UNCHANGED << storeVars, approvalModal >>
     ELSE IF lastMessage.type = "step_update"
     THEN /\ currentProgress' =
               IF currentProgress # NoProgress
               THEN ApplyStepUpdate(currentProgress, lastMessage)
               ELSE currentProgress
          /\ UNCHANGED << currentClient, isOnboardingActive, currentView,
                          showOnboardingModal, error, clients, approvalModal >>
     ELSE IF lastMessage.type = "approval_request"
     THEN /\ currentProgress' =
               IF currentProgress # NoProgress
               THEN ApplyApprovalRequest(currentProgress, lastMessage)
               ELSE currentProgress
          /\ UNCHANGED << currentClient, isOnboardingActive, currentView,
                          showOnboardingModal, error, clients, approvalModal >>
     ELSE IF lastMessage.type = "onboarding_complete"
     THEN /\ currentProgress' =
               IF currentProgress # NoProgress
               THEN ApplyOnboardingComplete(currentProgress, lastMessage)
               ELSE currentProgress
          /\ currentClient' = [currentClient EXCEPT !.status = "completed"]
          /\ clients' = UpdateClient(clients, currentClient.id, "completed")
          /\ currentView' = "complete"
          /\ approvalModal' = NoModal
          /\ UNCHANGED << isOnboardingActive, showOnboardingModal, error >>
     ELSE IF lastMessage.type = "error"
     THEN /\ error' = IF lastMessage.d_message # Undefined
                         /\ lastMessage.d_message # ""
                      THEN lastMessage.d_message ELSE DefaultErrorText
          /\ UNCHANGED << currentClient, currentProgress, isOnboardingActive,
                          currentView, showOnboardingModal, clients,
                          approvalModal >>
     ELSE UNCHANGED << storeVars, approvalModal >>
  /\ UNCHANGED << engineVars, lastMessage, socket, clientIdRef, isConnected,
                  orphans, followed, timers, inbox, orphanInbox >>
  /\ UNCHANGED formErrors

\* the page has rendered the current state and run its effects: the user
\* acts on what the page shows
Rendered == ~effectDirty

\* the store's isConnected as HomePage sees it: set to false once, never true
StoreIsConnected == FALSE

\* landing view: the "Start Onboarding" button
OpenOnboardingModal ==
  /\ Rendered
  /\ currentView \in {"landing", "dashboard"}
  /\ ~showOnboardingModal
  /\ showOnboardingModal' = TRUE
  /\ UNCHANGED << engineVars, currentClient, currentProgress,
                  isOnboardingActive, currentView, error, clients, hookVars,
                  approvalModal >>
  /\ UNCHANGED formErrors

\* handleStartOnboarding: the form is submitted, the engine creates the
\* client and its progress and answers with the initial snapshot; the
\* handler stores both and connects
HandleStartOnboarding ==
  /\ Rendered
  /\ showOnboardingModal
  /\ nextId < MaxClients
  /\ LET c == nextId + 1
         client == [id |-> c, status |-> "in_progress"]
     IN /\ EngineStart(c)
        /\ currentClient' = client
        /\ currentProgress' = StartSnapshot(c)
        /\ clients' = AddClient(clients, client)
        /\ effectDirty' = (effectDirty \/ currentClient.id # client.id)
        /\ Connect(c)
  /\ error' = NoError
  /\ isOnboardingActive' = TRUE
  /\ currentView' = "orchestration"
  /\ showOnboardingModal' = FALSE
  /\ approvalModal' = NoModal
  /\ UNCHANGED << lastMessage, timers >>
  /\ formErrors' = {}

\* the store's reset()
Reset ==
  /\ currentClient' = NoClient
  /\ currentProgress' = NoProgress
  /\ isOnboardingActive' = FALSE
  /\ currentView' = "landing"
  /\ error' = NoError
  /\ clients' = clients

\* faulty variant of HandleReset: the reset also cancels the workflow
HandleReset_CancelsWorkflow ==
  /\ Rendered
  /\ currentView = "orchestration"
  /\ Reset
  /\ showOnboardingModal' = FALSE
  /\ Disconnect
  /\ approvalModal' = NoModal
  /\ IF currentClient # NoClient
     THEN /\ progress' = [progress EXCEPT
                 ![currentClient.id].overall_status = "failed"]
          /\ pc' = [pc EXCEPT ![currentClient.id] = "halted"]
     ELSE UNCHANGED << progress, pc >>
  /\ UNCHANGED << pendingApproval, published, nextId, lastMessage,
                  effectDirty, timers >>
  /\ UNCHANGED formErrors

\* orchestration view: "Start New Onboarding"
HandleReset ==
  /\ Rendered
  /\ currentView = "orchestration"
  /\ Reset
  /\ showOnboardingModal' = FALSE
  /\ Disconnect
  /\ approvalModal' = NoModal
  /\ UNCHANGED << engineVars, lastMessage, effectDirty, timers >>
  /\ UNCHANGED formErrors

\* complete view, ClientDetails.onStartNew: reset, then open the modal
HandleStartNew ==
  /\ Rendered
  /\ currentView = "complete"
  /\ currentClient # NoClient
  /\ currentProgress # NoProgress
  /\ Reset
  /\ showOnboardingModal' = TRUE
  /\ Disconnect
  /\ approvalModal' = NoModal
  /\ UNCHANGED << engineVars, lastMessage, effectDirty, timers >>
  /\ UNCHANGED formErrors

\* the error banner's Dismiss button
DismissError ==
  /\ Rendered
  /\ error # NoError
  /\ error' = NoError
  /\ UNCHANGED << engineVars, currentClient, currentProgress,
                  isOnboardingActive, currentView, showOnboardingModal,
                  clients, hookVars, approvalModal >>
  /\ UNCHANGED formErrors

\* faulty variant of HandleRetry: the status query puts the failed step
\* back to in_progress
HandleRetry_RetriesStep ==
  /\ Rendered
  /\ error # NoError
  /\ currentClient # NoClient
  /\ error' = NoError
  /\ currentProgress' = GetStatus(currentClient.id)
  /\ IF ~StoreIsConnected
     THEN Connect(currentClient.id)
     ELSE UNCHANGED << socket, inbox, clientIdRef, isConnected, orphans, followed,
                       orphanInbox >>
  /\ progress' = [progress EXCEPT ![currentClient.id].steps =
                    [k \in DOMAIN @ |->
                       IF @[k].status = "failed"
                       THEN [@[k] EXCEPT !.status = "in_progress"]
                       ELSE @[k]]]
  /\ UNCHANGED << pendingApproval, pc, published, nextId, currentClient,
                  isOnboardingActive, currentView, showOnboardingModal,
                  clients, lastMessage, effectDirty, timers, approvalModal >>
  /\ UNCHANGED formErrors

\* handleRetry (the error banner's Retry button): clear the error, take the
\* snapshot the status query returns, reconnect unless connected.  The query
\* and its answer are one step.
HandleRetry ==
  /\ Rendered
  /\ error # NoError
  /\ currentClient # NoClient
  /\ error' = NoError
  /\ currentProgress' = GetStatus(currentClient.id)
  /\ IF ~StoreIsConnected
     THEN Connect(currentClient.id)
     ELSE UNCHANGED << socket, inbox, clientIdRef, isConnected, orphans, followed,
                       orphanInbox >>
  /\ UNCHANGED << engineVars, currentClient, isOnboardingActive, currentView,
                  showOnboardingModal, clients, lastMessage, effectDirty,
                  timers, approvalModal >>
  /\ UNCHANGED formErrors

(***************************************************************************)
(* ClientForm.  An intake is described by what the schema looks at: the    *)
(* lengths of the texts, whether the email is one, the project type;       *)
(* additional_notes may be absent.                                         *)
(***************************************************************************)
MinName == 2
MaxName == 100
MinScope == 10
MaxScope == 1000
MaxNotes == 500

ProjectType == {"web_development", "mobile_app", "design", "marketing",
                "consulting", "other"}

Absent == -1

\* lengths at and next to the limits
NameLengths == {MinName - 1, MinName, MaxName, MaxName + 1}
ScopeLengths == {MinScope - 1, MinScope, MaxScope, MaxScope + 1}
NotesLengths == {Absent, 0, MaxNotes, MaxNotes + 1}

Intakes ==
  [name : NameLengths, email : {"valid", "invalid"},
   project_type : ProjectType \cup {"unknown"},
   project_scope : ScopeLengths, additional_notes : NotesLengths]

\* faulty variant of ClientFormSchema: the upper limits are exclusive, as
\* the messages of the schema word them
ClientFormSchema_ExclusiveMax(data) ==
  {f \in {"name"} : data.name < MinName \/ data.name >= MaxName}
  \cup {f \in {"email"} : data.email # "valid"}
  \cup {f \in {"project_type"} : data.project_type \notin ProjectType}
  \cup {f \in {"project_scope"} :
          data.project_scope < MinScope \/ data.project_scope >= MaxScope}
  \cup {f \in {"additional_notes"} :
          data.additional_notes # Absent /\ data.additional_notes >= MaxNotes}

\* clientFormSchema: the fields the resolver reports an error for
ClientFormSchema(data) ==
  {f \in {"name"} : data.name < MinName \/ data.name > MaxName}
  \cup {f \in {"email"} : data.email # "valid"}
  \cup {f \in {"project_type"} : data.project_type \notin ProjectType}
  \cup {f \in {"project_scope"} :
          data.project_scope < MinScope \/ data.project_scope > MaxScope}
  \cup {f \in {"additional_notes"} :
          data.additional_notes # Absent /\ data.additional_notes > MaxNotes}

\* handleSubmit(onFormSubmit): the resolver validates; onFormSubmit, and
\* with it handleStartOnboarding, runs only without errors
SubmitForm(data) ==
  /\ Rendered
  /\ showOnboardingModal
  /\ IF ClientFormSchema(data) = {}
     THEN HandleStartOnboarding
     ELSE /\ formErrors' = ClientFormSchema(data)
          /\ UNCHANGED << engineVars, storeVars, hookVars, approvalModal >>

(***************************************************************************)
(* StatusDashboard and ApprovalModal.                                      *)
(***************************************************************************)
\* faulty variant of ApprovalOffered: the button is rendered for every step
\* in progress
ApprovalOffered_AnyStep(step) ==
  step.status = "in_progress"

\* the "Review & Approve" button is rendered for this step
ApprovalOffered(step) ==
  step.id = "human_approval" /\ step.status = "in_progress"

\* handleApprovalRequest: the button opens the modal for its step
HandleApprovalRequest ==
  /\ Rendered
  /\ currentView = "orchestration"
  /\ currentProgress # NoProgress
  /\ ~approvalModal.isOpen
  /\ \E i \in DOMAIN currentProgress.steps :
       /\ ApprovalOffered(currentProgress.steps[i])
       /\ approvalModal' = [isOpen |-> TRUE,
                            stepId |-> currentProgress.steps[i].id]
  /\ UNCHANGED << engineVars, storeVars, hookVars >>
  /\ UNCHANGED formErrors

\* faulty variant of ApproveStepParams: the feedback is never sent
ApproveStepParams_OmitsFeedback(approved, feedback) ==
  [approved |-> IF approved THEN "true" ELSE "false",
   feedback |-> Undefined]

\* ApiClient.approveStep: the query string of the approval request
ApproveStepParams(approved, feedback) ==
  [approved |-> IF approved THEN "true" ELSE "false",
   feedback |-> IF feedback # "" THEN feedback ELSE Undefined]

\* the approval endpoint reads the query string back
ParamApproved(params) == params.approved = "true"
ParamFeedback(params) ==
  IF params.feedback = Undefined THEN "" ELSE params.feedback

\* faulty variant of HandleApproval: a failed decision is swallowed
HandleApproval_SwallowsFailure(approved, feedback) ==
  /\ Rendered
  /\ approvalModal.isOpen
  /\ currentClient # NoClient
  /\ LET c == currentClient.id
         stepId == approvalModal.stepId
         params == ApproveStepParams(approved, feedback)
     IN Decide(c, stepId, ParamApproved(params), ParamFeedback(params))
  /\ error' = error
  /\ approvalModal' = NoModal
  /\ UNCHANGED << nextId, currentClient, currentProgress, isOnboardingActive,
                  currentView, showOnboardingModal, clients, lastMessage,
                  effectDirty, socket, clientIdRef, isConnected, orphans,
                  followed, timers >>
  /\ UNCHANGED formErrors

\* ApprovalModal.handleApprove -> handleApprovalResponse -> handleApproval:
\* the decision is sent, a failure becomes the error, the modal closes
HandleApproval(approved, feedback) ==
  /\ Rendered
  /\ approvalModal.isOpen
  /\ currentClient # NoClient
  /\ LET c == currentClient.id
         stepId == approvalModal.stepId
         params == ApproveStepParams(approved, feedback)
         result == DecideResult(c, stepId)
     IN /\ Decide(c, stepId, ParamApproved(params), ParamFeedback(params))
        /\ error' = IF result # "ok" THEN result ELSE error
  /\ approvalModal' = NoModal
  /\ UNCHANGED << nextId, currentClient, currentProgress, isOnboardingActive,
                  currentView, showOnboardingModal, clients, lastMessage,
                  effectDirty, socket, clientIdRef, isConnected, orphans,
                  followed, timers >>
  /\ UNCHANGED formErrors

Next ==
  \/ \E c \in ClientIds : EngineBeginStep(c)
  \/ \E c \in ClientIds : ExecutorSucceeds(c)
  \/ \E c \in ClientIds : ExecutorFails(c)
  \/ \E c \in ClientIds : EngineAdvance(c)
  \/ \E c \in ClientIds, stepId \in {StepIds[i] : i \in 1..NumSteps},
        approved \in BOOLEAN :
        ExternalDecide(c, stepId, approved, "")
  \/ SocketOpen
  \/ OnMessage
  \/ MessageEffect
  \/ OpenOnboardingModal
  \/ HandleStartOnboarding
  \/ HandleReset
  \/ HandleStartNew
  \/ DismissError
  \/ HandleRetry
  \/ HandleApprovalRequest
  \/ \E approved \in BOOLEAN, feedback \in Feedbacks :
        HandleApproval(approved, feedback)

Spec == Init /\ [][Next]_vars

(***************************************************************************)
(* The engine and the approval gate alone, driven through their API.       *)
(***************************************************************************)
EngineNext ==
  \/ ExternalStart
  \/ \E c \in ClientIds : EngineBeginStep(c)
  \/ \E c \in ClientIds : ExecutorSucceeds(c)
  \/ \E c \in ClientIds : ExecutorFails(c)
  \/ \E c \in ClientIds : EngineAdvance(c)
  \/ \E c \in ClientIds, stepId \in {StepIds[i] : i \in 1..NumSteps},
        approved \in BOOLEAN, feedback \in Feedbacks :
        ExternalDecide(c, stepId, approved, feedback)

EngineSpec == Init /\ [][EngineNext]_vars

(***************************************************************************)
(* One observer following the workflow it started and deciding at the      *)
(* approval gate, next to other callers of the approval endpoint.          *)
(***************************************************************************)
GateNext ==
  \/ \E c \in ClientIds : EngineBeginStep(c)
  \/ \E c \in ClientIds : ExecutorSucceeds(c)
  \/ \E c \in ClientIds : ExecutorFails(c)
  \/ \E c \in ClientIds : EngineAdvance(c)
  \/ \E c \in ClientIds, stepId \in {StepIds[i] : i \in 1..NumSteps},
        approved \in BOOLEAN :
        ExternalDecide(c, stepId, approved, "")
  \/ SocketOpen
  \/ OnMessage
  \/ MessageEffect
  \/ OpenOnboardingModal
  \/ HandleStartOnboarding
  \/ HandleApprovalRequest
  \/ \E approved \in BOOLEAN, feedback \in Feedbacks :
        HandleApproval(approved, feedback)

GateSpec == Init /\ [][GateNext]_vars

(***************************************************************************)
(* The engine when every executor succeeds and every approval is granted;  *)
(* the client's task is scheduled fairly and the decision arrives.         *)
(***************************************************************************)
HappyNext ==
  \/ ExternalStart
  \/ \E c \in ClientIds : EngineBeginStep(c)
  \/ \E c \in ClientIds : ExecutorSucceeds(c)
  \/ \E c \in ClientIds : EngineAdvance(c)
  \/ \E c \in ClientIds, stepId \in {StepIds[i] : i \in 1..NumSteps},
        feedback \in Feedbacks :
        ExternalDecide(c, stepId, TRUE, feedback)

HappySpec ==
  /\ Init
  /\ [][HappyNext]_vars
  /\ \A c \in ClientIds :
       /\ WF_vars(EngineBeginStep(c))
       /\ WF_vars(ExecutorSucceeds(c))
       /\ WF_vars(EngineAdvance(c))
       /\ WF_vars(\E feedback \in Feedbacks :
                    ExternalDecide(c, "human_approval", TRUE, feedback)
                    /\ pendingApproval[c] = "human_approval")

(***************************************************************************)
(* The observer with its real-time channel in full: connections are lost,  *)
(* the hook reconnects on its timer, and the sockets the hook abandoned    *)
(* are followed until their close events.                                  *)
(***************************************************************************)
HookInit ==
  /\ progress = [c \in ClientIds |-> NoProgress]
  /\ pendingApproval = [c \in ClientIds |-> Undefined]
  /\ pc = [c \in ClientIds |-> "idle"]
  /\ published = [c \in ClientIds |-> << >>]
  /\ nextId = 0
  /\ currentClient = NoClient
  /\ currentProgress = NoProgress
  /\ isOnboardingActive = FALSE
  /\ currentView = "landing"
  /\ showOnboardingModal = FALSE
  /\ error = NoError
  /\ clients = << >>
  /\ lastMessage = NoMessage
  /\ effectDirty = FALSE
  /\ socket = NoSocket
  /\ inbox = << >>
  /\ clientIdRef = 0
  /\ isConnected = FALSE
  /\ orphans = {}
  /\ orphanInbox = << >>
  /\ timers = 0
  /\ followed = TRUE
  /\ approvalModal = NoModal
  /\ formErrors = {}

HookNext ==
  \/ \E c \in ClientIds : EngineBeginStep(c)
  \/ \E c \in ClientIds : ExecutorSucceeds(c)
  \/ \E c \in ClientIds : ExecutorFails(c)
  \/ \E c \in ClientIds : EngineAdvance(c)
  \/ \E c \in ClientIds, approved \in BOOLEAN :
        ExternalDecide(c, "human_approval", approved, "")
  \/ SocketOpen
  \/ OnMessage
  \/ SocketDrops
  \/ SocketError
  \/ ReconnectTimer
  \/ \E o \in orphans : OrphanOpens(o)
  \/ OrphanMessage
  \/ \E o \in orphans : OrphanCloses(o)
  \/ MessageEffect
  \/ OpenOnboardingModal
  \/ (nextId = 0 /\ HandleStartOnboarding)
  \/ HandleReset
  \/ HandleRetry
  \/ HandleApprovalRequest
  \/ \E approved \in BOOLEAN : HandleApproval(approved, "")

HookSpec == HookInit /\ [][HookNext]_vars

(***************************************************************************)
(* One observer following the workflow it started over a channel that      *)
(* also carries frames that are not events of the engine.                  *)
(***************************************************************************)
FrameNext ==
  \/ \E c \in ClientIds : EngineBeginStep(c)
  \/ \E c \in ClientIds : ExecutorSucceeds(c)
  \/ \E c \in ClientIds : ExecutorFails(c)
  \/ \E c \in ClientIds : EngineAdvance(c)
  \/ \E c \in ClientIds, approved \in BOOLEAN :
        ExternalDecide(c, "human_approval", approved, "")
  \/ SocketOpen
  \/ OnMessage
  \/ OnForeignFrame
  \/ MessageEffect
  \/ OpenOnboardingModal
  \/ HandleStartOnboarding

FrameSpec == Init /\ [][FrameNext]_vars

(***************************************************************************)
(* The same observer when it takes no approval decision itself: lost       *)
(* connections, reconnects, reset and retry around one workflow.           *)
(***************************************************************************)
ReconnectNext ==
  \/ \E c \in ClientIds : EngineBeginStep(c)
  \/ \E c \in ClientIds : ExecutorSucceeds(c)
  \/ \E c \in ClientIds : ExecutorFails(c)
  \/ \E c \in ClientIds : EngineAdvance(c)
  \/ \E c \in ClientIds, approved \in BOOLEAN :
        ExternalDecide(c, "human_approval", approved, "")
  \/ SocketOpen
  \/ OnMessage
  \/ SocketDrops
  \/ SocketError
  \/ ReconnectTimer
  \/ \E o \in orphans : OrphanOpens(o)
  \/ \E o \in orphans : OrphanCloses(o)
  \/ MessageEffect
  \/ OpenOnboardingModal
  \/ (nextId = 0 /\ HandleStartOnboarding)
  \/ HandleReset
  \/ HandleRetry

ReconnectSpec == HookInit /\ [][ReconnectNext]_vars

(***************************************************************************)
(* The onboarding form in front of the engine: any intake may be           *)
(* submitted.                                                              *)
(***************************************************************************)
FormNext ==
  \/ OpenOnboardingModal
  \/ \E data \in Intakes : SubmitForm(data)
  \/ \E c \in ClientIds : EngineBeginStep(c)
  \/ \E c \in ClientIds : ExecutorSucceeds(c)
  \/ \E c \in ClientIds : ExecutorFails(c)
  \/ \E c \in ClientIds : EngineAdvance(c)
  \/ MessageEffect
  \/ HandleReset

FormSpec == Init /\ [][FormNext]_vars

(***************************************************************************)
(* Properties.                                                             *)
(***************************************************************************)
Started(c) == progress[c] # NoProgress

InProgressCount(steps) ==
  Cardinality({i \in DOMAIN steps : steps[i].status = "in_progress"})

\* at most one step in progress; a step left pending only after all before
\* it completed
StrictOrder(steps) ==
  /\ InProgressCount(steps) <= 1
  /\ \A i \in DOMAIN steps :
       steps[i].status # "pending" =>
         \A j \in DOMAIN steps : j < i => steps[j].status = "completed"

\* C1: the steps of one client's workflow run strictly in Workflow
\* Definition order: at most one step is in_progress, and a step has left
\* pending only if every earlier step is completed.
C1_StepsInOrder ==
  \A c \in ClientIds : Started(c) => StrictOrder(progress[c].steps)

C1_Witness ==
  \E c \in ClientIds :
    /\ Started(c)
    /\ progress[c].steps[1].status = "completed"
    /\ progress[c].steps[2].status = "completed"
    /\ progress[c].steps[3].status = "in_progress"

\* the executor of the current step has just failed
ExecutorFailed(c) == pc[c] = "exec" /\ pc'[c] = "halted"

FailedAt(p, k, text) ==
  /\ p.steps[k].status = "failed"
  /\ p.steps[k].error_message = text
  /\ p.overall_status = "failed"
  /\ \A j \in DOMAIN p.steps : j > k => p.steps[j].status = "pending"

\* C2: when the executor of step k fails, step k is failed with the error
\* message, the workflow is failed, the later steps are pending, and from
\* then on the failed workflow never changes: no step starts, no executor
\* runs, nothing is retried.
C2_ExecutorFailureIsFatal ==
  [][\A c \in ClientIds :
       /\ ExecutorFailed(c) =>
            /\ progress'[c].current_step = progress[c].current_step
            /\ FailedAt(progress'[c], progress[c].current_step + 1,
                        ExecutorErrorText)
            /\ ExecutorErrorText # ""
       /\ (Started(c) /\ progress[c].overall_status = "failed") =>
            /\ progress'[c] = progress[c]
            /\ pc'[c] = pc[c]
            /\ pc[c] = "halted"]_vars

C2_Witness ==
  \E c \in ClientIds :
    /\ pc[c] = "halted"
    /\ FailedAt(progress[c], 1, ExecutorErrorText)
    /\ progress[c].steps[2].status = "pending"

\* the index of the approval-gated step among the steps of p
ApprovalIndexes(p) == {k \in DOMAIN p.steps : ApprovalRequired(p.steps[k].id)}

RejectionText(feedback) == IF feedback # "" THEN feedback ELSE DefaultRejection

\* the decision the observer is about to send is for the pending approval
ObserverDecisionPending ==
  /\ approvalModal.isOpen
  /\ currentClient # NoClient
  /\ pendingApproval[currentClient.id] = approvalModal.stepId

\* C3: a decision with approved = false on the step awaiting approval (sent
\* by the observer's approval modal with any feedback, or by another caller)
\* sets that step to failed with the feedback, or the default rejection
\* message when there is none, sets the workflow to failed and clears the
\* pending approval; and once the approval step is failed no later step ever
\* leaves pending.
C3_RejectionFailsWorkflow ==
  [][/\ \A fb \in Feedbacks :
          (ObserverDecisionPending /\ HandleApproval(FALSE, fb)) =>
            LET c == currentClient.id
            IN /\ FailedAt(progress'[c], progress[c].current_step + 1,
                           RejectionText(fb))
               /\ progress[c].steps[progress[c].current_step + 1].id =
                    approvalModal.stepId
               /\ pendingApproval'[c] = Undefined
     /\ \A c \in ClientIds, fb \in Feedbacks :
          (pendingApproval[c] # Undefined
             /\ ExternalDecide(c, pendingApproval[c], FALSE, fb)) =>
            /\ FailedAt(progress'[c], progress[c].current_step + 1,
                        RejectionText(fb))
            /\ pendingApproval'[c] = Undefined
     /\ \A c \in ClientIds :
          Started(c) =>
            \A k \in ApprovalIndexes(progress[c]) :
              progress[c].steps[k].status = "failed" =>
                /\ progress[c].overall_status = "failed"
                /\ \A j \in DOMAIN progress[c].steps :
                     j > k => /\ progress[c].steps[j].status = "pending"
                              /\ progress'[c].steps[j].status = "pending"]_vars

C3_Witness ==
  /\ currentClient # NoClient
  /\ LET p == progress[currentClient.id]
     IN /\ pc[currentClient.id] = "halted"
        /\ FailedAt(p, 2, "wrong scope")
        /\ p.steps[2].id = "human_approval"
        /\ p.steps[3].status = "pending"
        /\ pendingApproval[currentClient.id] = Undefined

\* C4: a decision for a pair with no pending approval (another step id, a
\* step not reached yet, an approval already decided) fails with
\* InvalidStateError and changes nothing in the engine: the observer's
\* decision leaves the engine as it is and shows the failure, another
\* caller's decision leaves everything as it is.  A decision that is honored
\* clears the pending approval, so that a second one for it fails.
C4_DecisionNeedsPendingApproval ==
  /\ [](\A c \in ClientIds, sid \in {StepIds[i] : i \in 1..NumSteps} :
          (Started(c) /\ pendingApproval[c] # sid) =>
            DecideResult(c, sid) = "InvalidStateError")
  /\ [][/\ \A a \in BOOLEAN, fb \in Feedbacks :
             (~ObserverDecisionPending /\ HandleApproval(a, fb)) =>
               /\ DecideResult(currentClient.id, approvalModal.stepId) =
                    "InvalidStateError"
               /\ UNCHANGED engineVars
               /\ error' = "InvalidStateError"
        /\ \A c \in ClientIds, sid \in {StepIds[i] : i \in 1..NumSteps},
              a \in BOOLEAN, fb \in Feedbacks :
             (Started(c) /\ pendingApproval[c] # sid
                /\ ExternalDecide(c, sid, a, fb)) =>
               /\ DecideResult(c, sid) = "InvalidStateError"
               /\ UNCHANGED engineVars
        /\ \A c \in ClientIds, a \in BOOLEAN, fb \in Feedbacks :
             (pendingApproval[c] # Undefined
                /\ \/ ExternalDecide(c, pendingApproval[c], a, fb)
                   \/ (ObserverDecisionPending /\ currentClient.id = c
                         /\ HandleApproval(a, fb))) =>
               /\ DecideResult(c, pendingApproval[c]) = "ok"
               /\ pendingApproval'[c] = Undefined
               /\ \A sid \in {StepIds[i] : i \in 1..NumSteps} :
                    pendingApproval'[c] # sid]_vars

\* the observer's decision came second: it failed and left the decided step
\* as the first decision made it
C4_Witness ==
  /\ error = "InvalidStateError"
  /\ currentClient # NoClient
  /\ pendingApproval[currentClient.id] = Undefined
  /\ progress[currentClient.id].steps[2].id = "human_approval"
  /\ progress[currentClient.id].steps[2].status = "failed"
  /\ progress[currentClient.id].steps[2].error_message = DefaultRejection
  /\ ~approvalModal.isOpen

\* C5: while an approval is pending the workflow is suspended at the gated
\* step: the task waits, the gated step is the current step and is
\* in_progress, every later step is pending, and nothing of the workflow
\* changes (cursor, steps, pending approval) except by a decision for that
\* step.
C5_SuspendedWhileApprovalPending ==
  [][\A c \in ClientIds :
       pendingApproval[c] # Undefined =>
         LET k == progress[c].current_step + 1
         IN /\ pc[c] = "await"
            /\ progress[c].steps[k].id = pendingApproval[c]
            /\ progress[c].steps[k].status = "in_progress"
            /\ \A j \in DOMAIN progress[c].steps :
                 j > k => progress[c].steps[j].status = "pending"
            /\ \/ /\ progress'[c] = progress[c]
                  /\ pendingApproval'[c] = pendingApproval[c]
                  /\ pc'[c] = pc[c]
               \/ \E a \in BOOLEAN, fb \in Feedbacks :
                    ExternalDecide(c, pendingApproval[c], a, fb)]_vars

\* one workflow waits at the gate while another one has been decided and
\* has moved on
C5_Witness ==
  \E c, d \in ClientIds :
    /\ c # d
    /\ pendingApproval[c] = "human_approval"
    /\ pc[c] = "await"
    /\ progress[c].current_step = 1
    /\ Started(d)
    /\ progress[d].current_step = 2

\* progress_percentage is the rounded share of completed steps
PercentageIsRatio(p) ==
  /\ p.progress_percentage \in 0..100
  /\ p.progress_percentage = ProgressPercentage(p.steps)

\* C6: in every reachable state, the progress_percentage of the engine's
\* record of every client and of the observer's local copy is within 0..100
\* and equals round(100 * completed steps / steps).
C6_PercentageIsCompletedRatio ==
  /\ \A c \in ClientIds : Started(c) => PercentageIsRatio(progress[c])
  /\ currentProgress # NoProgress => PercentageIsRatio(currentProgress)

AllStepsCompleted(p) ==
  \A i \in DOMAIN p.steps : p.steps[i].status = "completed"

\* C7: the engine's record is completed if and only if every step is
\* completed, and the observer's local progress, once it is completed (an
\* onboarding_complete event was applied), has every step completed.
C7_CompletedIffAllStepsCompleted ==
  /\ \A c \in ClientIds :
       Started(c) =>
         (progress[c].overall_status = "completed"
            <=> AllStepsCompleted(progress[c]))
  /\ (currentProgress # NoProgress
        /\ currentProgress.overall_status = "completed") =>
       AllStepsCompleted(currentProgress)

\* a step that left pending does not return to it; completed and failed are
\* final
MonotonicStatus(old, new) ==
  /\ old # "pending" => new # "pending"
  /\ old \in {"completed", "failed"} => new = old

MonotonicSteps(p, q) ==
  \A i \in DOMAIN p.steps :
    i \in DOMAIN q.steps => MonotonicStatus(p.steps[i].status,
                                            q.steps[i].status)

\* C8: step status is monotonic over every engine transition and over every
\* event the observer applies to the local progress of a client.
C8_StepStatusMonotonic ==
  [][/\ \A c \in ClientIds :
          Started(c) => MonotonicSteps(progress[c], progress'[c])
     /\ (MessageEffect /\ currentProgress # NoProgress
           /\ currentProgress'.client_id = currentProgress.client_id) =>
          MonotonicSteps(currentProgress, currentProgress')]_vars

CursorInRange(p) ==
  /\ p.current_step \in 0..Len(p.steps)
  /\ p.current_step = Len(p.steps) => p.overall_status = "completed"

\* C9: current_step of a workflow never decreases and stays within
\* 0..len(steps), reaching len(steps) only in a completed workflow; so does
\* the current_step of the observer's local progress of a client.
C9_CursorNeverDecreases ==
  [][/\ \A c \in ClientIds :
          Started(c) =>
            /\ CursorInRange(progress[c])
            /\ progress'[c].current_step >= progress[c].current_step
     /\ (currentProgress # NoProgress
           /\ currentProgress'.client_id = currentProgress.client_id) =>
          /\ CursorInRange(currentProgress)
          /\ currentProgress'.current_step >= currentProgress.current_step
    ]_vars

Completed(c) ==
  /\ progress[c].overall_status = "completed"
  /\ progress[c].progress_percentage = 100
  /\ progress[c].completed_at # NoTime

CompleteEvents(c) ==
  {i \in DOMAIN published[c] : published[c][i].type = "onboarding_complete"}

\* onboarding_complete is in the client's stream once the workflow is
\* completed, not before and not twice, as the last event, right after the
\* step_update that completed the last step
CompletePublishedOnce(c) ==
  LET n == Len(published[c])
  IN IF Started(c) /\ progress[c].overall_status = "completed"
     THEN /\ CompleteEvents(c) = {n}
          /\ n >= 2
          /\ published[c][n - 1].type = "step_update"
          /\ published[c][n - 1].step_id = StepIds[NumSteps]
          /\ published[c][n - 1].step_status = "completed"
     ELSE CompleteEvents(c) = {}

\* C10: when every executor succeeds and every pending approval is
\* eventually approved, a started workflow eventually is completed with
\* progress_percentage 100 and completed_at set, and onboarding_complete is
\* published exactly once, after the step_update of the last step.
C10_HappyPathCompletes ==
  /\ \A c \in ClientIds : Started(c) ~> Completed(c)
  /\ [](\A c \in ClientIds : CompletePublishedOnce(c))

C10_Witness ==
  \E c \in ClientIds :
    /\ Started(c)
    /\ Completed(c)
    /\ AllStepsCompleted(progress[c])
    /\ progress[c].steps[2].feedback = "wrong scope"
    /\ CompleteEvents(c) = {Len(published[c])}

(***************************************************************************)
(* C11: the events published for one client reach a subscribed observer in *)
(* publication order, and the publication order is the order of the step   *)
(* transitions: the step_update events of a client never go back to an     *)
(* earlier step, nor from a terminal status of a step back to in_progress; *)
(* the events in flight to the observer are the latest events published    *)
(* for its client, in the same order; and the observer receives the        *)
(* oldest event in flight first, so never e2 before e1.                    *)
(***************************************************************************)
StepIndex(stepId) == CHOOSE i \in 1..NumSteps : StepIds[i] = stepId

StepUpdates(events) == SelectSeq(events, LAMBDA e : e.type = "step_update")

PublishedInTransitionOrder(c) ==
  LET u == StepUpdates(published[c])
  IN \A i, j \in DOMAIN u :
       i < j =>
         /\ StepIndex(u[i].step_id) <= StepIndex(u[j].step_id)
         /\ u[i].step_id = u[j].step_id =>
              /\ u[i].step_status = "in_progress"
              /\ u[j].step_status \in {"completed", "failed"}

IsSuffix(s, t) ==
  /\ Len(s) <= Len(t)
  /\ s = SubSeq(t, Len(t) - Len(s) + 1, Len(t))

\* the hook's socket hands one frame to socket.onmessage
ReceivedThroughSocket == socket' = socket /\ Len(inbox') < Len(inbox)

C11_EventsDeliveredInPublicationOrder ==
  /\ [](\A c \in ClientIds : PublishedInTransitionOrder(c))
  /\ [](socket.state = "open" => IsSuffix(inbox, published[socket.client]))
  /\ [][ReceivedThroughSocket =>
          /\ lastMessage' = Head(inbox)
          /\ inbox' = Tail(inbox)]_vars

\* e1 has been received while e2, published after it, is still in flight
C11_Witness ==
  /\ socket.state = "open"
  /\ Len(inbox) = 1
  /\ Len(published[socket.client]) >= 2
  /\ lastMessage = published[socket.client][Len(published[socket.client]) - 1]
  /\ inbox[1] = published[socket.client][Len(published[socket.client])]
  /\ lastMessage # inbox[1]

(***************************************************************************)
(* C12: disconnect() is idempotent and always safe.  In every reachable    *)
(* state of the hook (socket connecting, open, dropped, already            *)
(* disconnected or never created) one call leaves no socket, not           *)
(* connected and no client id kept for reconnecting, and a second call     *)
(* changes nothing; a handler that disconnects leaves exactly that state.  *)
(***************************************************************************)
Disconnected ==
  [socket |-> NoSocket, clientIdRef |-> 0, isConnected |-> FALSE]

AutomaticReconnect == ReconnectTimer /\ clientIdRef # 0

C13_ReconnectResynchronizes ==
  [][/\ AutomaticReconnect => currentProgress' = GetStatus(clientIdRef)
     /\ HandleRetry => currentProgress' = GetStatus(currentClient.id)]_vars

(***************************************************************************)
(* C14: a dropped or errored connection is recovered by reconnecting to    *)
(* the same client id and is never a workflow-level error.  The close and  *)
(* error events and the reconnect timer leave the observer's error, its    *)
(* local progress and view, and the engine's state unchanged; the socket   *)
(* the hook refers to is always a socket of the client id kept for         *)
(* reconnecting; an abnormal close of it schedules a reconnect, and the    *)
(* reconnect connects to that client id.                                   *)
(***************************************************************************)
ConnectionEvent ==
  \/ SocketDrops
  \/ SocketError
  \/ ReconnectTimer
  \/ \E o \in orphans : OrphanCloses(o)

UnknownType(m) == m # NoMessage /\ m.type \notin KnownTypes

C15_UnknownMessageIgnored ==
  /\ [](UnknownType(lastMessage) => ~Throws(lastMessage))
  /\ [][MessageEffect /\ UnknownType(lastMessage) =>
          UNCHANGED << storeVars, approvalModal >>]_vars

\* a plain-text frame has been handled while a workflow is shown
C15_Witness ==
  /\ lastMessage.type = "message"
  /\ ~effectDirty
  /\ currentClient # NoClient
  /\ currentProgress # NoProgress
  /\ Len(published[currentClient.id]) > 0

(***************************************************************************)
(* C16: handleReset changes only the observer's local state: the step      *)
(* leaves every workflow's steps, cursor and status (the whole engine      *)
(* state) unchanged, and a workflow nobody observes continues: whenever    *)
(* the observer shows no client and has no socket, the next step of each   *)
(* running workflow can be taken.                                          *)
(***************************************************************************)
Unobserved ==
  /\ currentClient = NoClient
  /\ socket = NoSocket
  /\ orphanInbox = << >>

CanContinue(c) ==
  /\ pc[c] = "begin" => ENABLED EngineBeginStep(c)
  /\ pc[c] = "exec" => ENABLED ExecutorSucceeds(c)
  /\ pc[c] = "advance" => ENABLED EngineAdvance(c)
  /\ pc[c] = "await" =>
       ENABLED ExternalDecide(c, "human_approval", TRUE, "")

C16_ResetLeavesWorkflowRunning ==
  /\ [](Unobserved => \A c \in ClientIds : CanContinue(c))
  /\ [][HandleReset => UNCHANGED engineVars]_vars

\* the observer has reset while the workflow it started is still running
C16_Witness ==
  /\ Unobserved
  /\ currentView = "landing"
  /\ currentProgress = NoProgress
  /\ \E c \in ClientIds :
       /\ Started(c)
       /\ progress[c].overall_status = "in_progress"
       /\ pc[c] = "exec"

(***************************************************************************)
(* C17: an intake is accepted by the form exactly if the name has 2 to 100 *)
(* characters, the email is valid, the project scope has 10 to 1000        *)
(* characters, the notes (if any) at most 500 and the project type is one  *)
(* of the enumeration, the limits included; a rejected submission creates  *)
(* nothing and sends no start request, and a client is created only by a   *)
(* submission without errors.                                              *)
(***************************************************************************)
WithinConstraints(data) ==
  /\ data.name \in 2..100
  /\ data.email = "valid"
  /\ data.project_scope \in 10..1000
  /\ data.additional_notes = Absent \/ data.additional_notes \in 0..500
  /\ data.project_type \in {"web_development", "mobile_app", "design",
                            "marketing", "consulting", "other"}

IsStartSnapshot(p) ==
  /\ Len(p.steps) = NumSteps
  /\ p.steps[1].status = "in_progress"
  /\ \A i \in 2..NumSteps : p.steps[i].status = "pending"
  /\ p.current_step = 0
  /\ p.progress_percentage = 0
  /\ p.overall_status = "in_progress"

FailedInspectable(p) ==
  /\ p.overall_status = "failed"
  /\ \E i \in DOMAIN p.steps :
       /\ p.steps[i].status = "failed"
       /\ p.steps[i].error_message # ""

\* the observer has handled both events of the failure of its client
ObserverSawFailure ==
  /\ currentClient # NoClient
  /\ currentProgress # NoProgress
  /\ \E i \in DOMAIN currentProgress.steps :
       currentProgress.steps[i].status = "failed"
  /\ ~effectDirty
  /\ lastMessage.type = "error"
  /\ lastMessage.client_id = currentClient.id
  /\ progress[currentClient.id].overall_status = "failed"

C19_FailureIsInspectable ==
  /\ \A c \in ClientIds :
       progress[c].overall_status = "failed" =>
         FailedInspectable(GetStatus(c))
  /\ ObserverSawFailure => FailedInspectable(currentProgress)

(***************************************************************************)
(* C20: getStatus is idempotent.  As stated: two status queries for a      *)
(* client with no approval decision submitted between them return the      *)
(* same snapshot, whatever else happens in between (C20_NoDecisionSame-     *)
(* Snapshot).  As it holds: two status queries return the same snapshot    *)
(* if the client's task takes no step between them (no step begun, no      *)
(* executor result, no advance, no decision); the query itself changes     *)
(* nothing of the engine, and the observer stores the snapshot as          *)
(* returned (C20_StatusQueryIsPure).                                       *)
(***************************************************************************)
\* an approval decision is accepted for c in this step
DecisionStep(c) ==
  /\ pendingApproval[c] # Undefined
  /\ pendingApproval'[c] = Undefined

C20_NoDecisionSameSnapshot ==
  [][\A c \in ClientIds :
       Started(c) /\ ~DecisionStep(c) => GetStatus(c)' = GetStatus(c)]_vars

C20_StatusQueryIsPure ==
  [][/\ \A c \in ClientIds :
          Started(c) /\ pc'[c] = pc[c] => GetStatus(c)' = GetStatus(c)
     /\ HandleRetry =>
          /\ UNCHANGED engineVars
          /\ currentProgress' = GetStatus(currentClient.id)]_vars

\* the observer shows the snapshot of a failed workflow, which only the
\* status query gives it
C20_Witness ==
  /\ currentClient # NoClient
  /\ currentProgress = GetStatus(currentClient.id)
  /\ currentProgress.overall_status = "failed"
  /\ error = NoError

(***************************************************************************)
(* Events shaped as the event envelope prescribes: type, client_id,        *)
(* timestamp and a data payload that carries the variant's fields; the     *)
(* message has no variant fields of its own.                               *)
(***************************************************************************)
Envelope(m) ==
  [m EXCEPT !.step_id = Undefined, !.step_status = Undefined,
            !.progress_percentage = UndefinedNum,
            !.has_completion_data = FALSE, !.cd_completed_at = Undefined]

EnvelopeShaped(m) == m # NoMessage /\ m = Envelope(m)

\* socket.onmessage for an event frame in the envelope's shape
OnEnvelopeFrame ==
  /\ socket.state = "open"
  /\ inbox # << >>
  /\ lastMessage' = Envelope(Head(inbox))
  /\ inbox' = Tail(inbox)
  /\ effectDirty' = TRUE
  /\ UNCHANGED << engineVars, storeVars, socket, clientIdRef, isConnected,
                  orphans, followed, orphanInbox, timers, approvalModal >>
  /\ UNCHANGED formErrors

(***************************************************************************)
(* One observer following the workflow it started over a channel whose     *)
(* events have the envelope's shape.                                       *)
(***************************************************************************)
EnvelopeNext ==
  \/ \E c \in ClientIds : EngineBeginStep(c)
  \/ \E c \in ClientIds : ExecutorSucceeds(c)
  \/ \E c \in ClientIds : ExecutorFails(c)
  \/ \E c \in ClientIds : EngineAdvance(c)
  \/ \E c \in ClientIds, approved \in BOOLEAN :
        ExternalDecide(c, "human_approval", approved, "")
  \/ SocketOpen
  \/ OnEnvelopeFrame
  \/ MessageEffect
  \/ OpenOnboardingModal
  \/ HandleStartOnboarding

EnvelopeSpec == Init /\ [][EnvelopeNext]_vars

\* the message effect handles message m: it runs past its first line
Handles(m) ==
  /\ MessageEffect
  /\ lastMessage = m
  /\ currentClient # NoClient
  /\ currentProgress # NoProgress

(***************************************************************************)
(* C21: for a step_update event in the envelope's shape (step_id,          *)
(* step_status, progress_percentage and the optional current_step inside   *)
(* the data payload) the message effect sets the status of exactly the     *)
(* local step whose id is data.step_id to data.step_status, sets the local *)
(* progress_percentage to data.progress_percentage and leaves every other  *)
(* step as it was.                                                         *)
(***************************************************************************)
C21_EnvelopeStepUpdateApplied ==
  [][\A m \in {lastMessage} :
       Handles(m) /\ m.type = "step_update" /\ EnvelopeShaped(m) =>
         /\ \A i \in DOMAIN currentProgress.steps :
              currentProgress'.steps[i] =
                IF currentProgress.steps[i].id = m.d_step_id
                THEN [currentProgress.steps[i]
                        EXCEPT !.status = m.d_step_status]
                ELSE currentProgress.steps[i]
         /\ currentProgress'.progress_percentage = m.d_progress_percentage
    ]_vars

(***************************************************************************)
(* C22: for an onboarding_complete event whose data payload carries        *)
(* completed_at the message effect finishes without raising and sets the   *)
(* local overall_status to completed, progress_percentage to 100,          *)
(* completed_at to data.completed_at, the current client's status to       *)
(* completed and the view to 'complete'.                                   *)
(***************************************************************************)
C22_EnvelopeCompletionApplied ==
  [][\A m \in {lastMessage} :
       /\ Handles(m) /\ m.type = "onboarding_complete" /\ EnvelopeShaped(m)
       /\ m.d_completed_at # Undefined
       => /\ ~Throws(m)
          /\ currentProgress'.overall_status = "completed"
          /\ currentProgress'.progress_percentage = 100
          /\ currentProgress'.completed_at = m.d_completed_at
          /\ currentClient'.status = "completed"
          /\ currentView' = "complete"
    ]_vars

(***************************************************************************)
(* C23: an approval request is pending only while its step is in_progress  *)
(* and flagged approval-required, and the observer offers the approve /    *)
(* reject control exactly for the approval-required steps it shows         *)
(* in_progress: never for a pending, completed or failed step, never for a *)
(* step without the flag, and the modal opens only for such a step.        *)
(***************************************************************************)
\* step of progress p is in_progress and flagged approval-required
AwaitsApproval(step) ==
  ApprovalRequired(step.id) /\ step.status = "in_progress"

ForeignMessage ==
  /\ lastMessage # NoMessage
  /\ currentClient # NoClient
  /\ lastMessage.client_id # currentClient.id

C24_EventsOfPreviousClientIgnored ==
  [][MessageEffect /\ ForeignMessage =>
       UNCHANGED << currentProgress, currentClient, currentView >>]_vars

(***************************************************************************)
(* C25: every message received on the socket is applied to the local       *)
(* progress exactly once and in arrival order: a message the hook has      *)
(* received for the current client and the message effect has not handled  *)
(* yet stays the hook's lastMessage until the effect has run, so no        *)
(* message is skipped when two arrive before the effect runs.              *)
(***************************************************************************)
\* lastMessage was received for the current client and awaits the effect
PendingMessage ==
  /\ effectDirty
  /\ lastMessage # NoMessage
  /\ currentClient # NoClient
  /\ lastMessage.client_id = currentClient.id

C25_NoReceivedMessageSkipped ==
  [][PendingMessage => lastMessage' = lastMessage]_vars

(***************************************************************************)
(* C26: after a manual disconnect() no new WebSocket is created until      *)
(* connect() is called again by a handler of the page: while the hook is   *)
(* disconnected, neither the close event of the socket it closed nor a     *)
(* reconnect timer scheduled before the disconnect creates a socket, and   *)
(* neither brings back a client id to reconnect for.                       *)
(***************************************************************************)
NoSocketKept == socket = NoSocket /\ clientIdRef = 0

C26_NoSocketAfterManualDisconnect ==
  [][NoSocketKept /\ ~NoSocketKept' =>
       HandleStartOnboarding \/ HandleRetry]_vars

\* the hook is disconnected while the close event of the socket it closed
\* and a reconnect timer scheduled before are still to come
C26_Witness ==
  /\ HookState = Disconnected
  /\ nextId > 0
  /\ timers > 0
  /\ \E o \in orphans : o.state = "closing"

(***************************************************************************)
(* C27: at any time at most one WebSocket created by the hook is           *)
(* connecting or open: a socket the hook no longer refers to, because      *)
(* connect() or disconnect() replaced it, has been closed, so only the     *)
(* socket created last can deliver messages or change isConnected.         *)
(***************************************************************************)
Live(s) == s.state \in {"connecting", "open"}

C27_AtMostOneLiveSocket == \A o \in orphans : ~Live(o)

(***************************************************************************)
(* C28: connections settle: the hook never closes and reopens on its own a *)
(* socket that connect() has opened and that nothing dropped.  A reconnect *)
(* timer that fires while the current socket is open, left over from an    *)
(* earlier close or scheduled by the close of a socket connect() replaced, *)
(* leaves that socket as it is.                                            *)
(***************************************************************************)
C28_ConnectionsSettle ==
  [][ReconnectTimer /\ socket.state = "open" => UNCHANGED socket]_vars

(***************************************************************************)
(* C29: the store's isConnected flag, which the connection indicator shows *)
(* and handleRetry consults, is true exactly when the WebSocket for the    *)
(* current client is open.                                                 *)
(***************************************************************************)
CurrentClientSocketOpen ==
  /\ currentClient # NoClient
  /\ socket.state = "open"
  /\ socket.client = currentClient.id

C29_StoreFlagFollowsSocket == StoreIsConnected <=> CurrentClientSocketOpen

(***************************************************************************)
(* The onboarding store on its own: addClient, updateClient,               *)
(* setCurrentClient and reset called in any order with any client.         *)
(***************************************************************************)
ClientStatus == {"pending", "in_progress", "completed", "failed"}

Clients == [id : ClientIds, status : ClientStatus]

StoreAddClient(client) ==
  /\ clients' = AddClient(clients, client)
  /\ UNCHANGED << engineVars, currentClient, currentProgress,
                  isOnboardingActive, currentView, showOnboardingModal,
                  error, hookVars, approvalModal, formErrors >>

\* updateClient: the list, and the current client if it is the one updated
StoreUpdateClient(clientId, status) ==
  /\ clients' = UpdateClient(clients, clientId, status)
  /\ currentClient' = IF currentClient # NoClient
                         /\ currentClient.id = clientId
                      THEN [currentClient EXCEPT !.status = status]
                      ELSE currentClient
  /\ UNCHANGED << engineVars, currentProgress, isOnboardingActive,
                  currentView, showOnboardingModal, error, hookVars,
                  approvalModal, formErrors >>

StoreSetCurrentClient(client) ==
  /\ currentClient' = client
  /\ UNCHANGED << engineVars, currentProgress, isOnboardingActive,
                  currentView, showOnboardingModal, error, clients, hookVars,
                  approvalModal, formErrors >>

StoreReset ==
  /\ Reset
  /\ showOnboardingModal' = FALSE
  /\ UNCHANGED << engineVars, hookVars, approvalModal, formErrors >>

StoreNext ==
  \/ \E client \in Clients : StoreAddClient(client)
  \/ \E clientId \in ClientIds, status \in ClientStatus :
        StoreUpdateClient(clientId, status)
  \/ \E client \in Clients : StoreSetCurrentClient(client)
  \/ StoreReset

StoreSpec == Init /\ [][StoreNext]_vars

(***************************************************************************)
(* C30: after any sequence of addClient, updateClient and reset the        *)
(* clients list holds at most one entry per client id: addClient of an id  *)
(* in the list replaces that entry where it stands, addClient of a new id  *)
(* puts the client in front of the list, updateClient of an id that is not *)
(* in the list and reset leave the list as it is.                          *)
(***************************************************************************)
UniqueIds(list) ==
  \A i, j \in DOMAIN list : list[i].id = list[j].id => i = j

Listed(list, clientId) == \E i \in DOMAIN list : list[i].id = clientId

C30_OneEntryPerClient ==
  /\ [](UniqueIds(clients))
  /\ [][/\ \A client \in Clients :
             StoreAddClient(client) =>
               IF Listed(clients, client.id)
               THEN /\ Len(clients') = Len(clients)
                    /\ \A i \in DOMAIN clients :
                         clients'[i] = IF clients[i].id = client.id
                                       THEN client ELSE clients[i]
               ELSE /\ Head(clients') = client
                    /\ Tail(clients') = clients
        /\ \A clientId \in ClientIds, status \in ClientStatus :
             StoreUpdateClient(clientId, status)
               /\ ~Listed(clients, clientId) => clients' = clients
        /\ StoreReset => clients' = clients]_vars

\* every client is listed once, after entries have been replaced or updated
\* and the store has been reset
C30_Witness ==
  /\ Len(clients) = MaxClients
  /\ UniqueIds(clients)
  /\ clients[1].status = "completed"
  /\ clients[Len(clients)].status = "failed"
  /\ currentClient = NoClient
====
